---- MODULE Spec2Model ----
(***************************************************************************)
(* Model of ebs_snapshot_automation.py: main() runs make_snapshots() and   *)
(* then delete_old_snapshots() against an EC2 API client.  The EC2 side    *)
(* (instances, volumes, snapshots, tags) is part of the state; every API   *)
(* call either succeeds or raises BotoCoreError.  Python local variables   *)
(* that may be unbound are kept as <<>> (unbound) or <<value>> (bound).    *)
(***************************************************************************)
EXTENDS Integers, Sequences, FiniteSets, TLC

\* ---------------------------------------------------------------- bounds
\* Number of snapshots that exist before the run starts.
MaxOldSnapshots == 3
\* Latest creation time of a snapshot that exists before the run starts.
MaxStartTime == 2
\* Largest retention count (--num-backups) tried.
MaxNumBackups == 2
\* Largest number of API calls that raise BotoCoreError in one run.
MaxFailures == 2

OldSnapshotIds == 1..MaxOldSnapshots

\* ------------------------------------------------------ the EC2 account
\* The instances and the volumes of the account, in the order the API lists
\* them.
AllInstances == <<"i-1", "i-2">>
AllVolumes == <<"vol-1", "vol-2">>
InstanceIds == {AllInstances[k] : k \in 1..Len(AllInstances)}
VolumeIds == {AllVolumes[k] : k \in 1..Len(AllVolumes)}

\* ------------------------------------------------------- selector (main)
\* args.tag default 'Lifecycle:legacy', split at ':' into key and value.
tag_key == "Lifecycle"
tag_value == "legacy"
\* A value of the selector tag that the run is not about.
other_value == "other"

CreatorLiteral == "ebs_snapshot_automation"
\* 'Origin-%s' % tag_key
OriginKey(key) == "Origin-" \o key

TagKeys == {"Name", "Creator", "Origin-Instance", OriginKey(tag_key)}
NoTags == [k \in TagKeys |-> <<>>]

VARIABLES
    ec2_tagged,      \* instance id -> TRUE when it carries tag_key=tag_value
    ec2_attached,    \* volume id -> set of instances it is attached to
    ec2_snapshots,   \* sequence of snapshots; SnapshotId is the index
    num_backups,     \* args.num_backups
    pc,              \* position in main()
    instances,       \* make_snapshots: list of instance ids
    idx,             \* make_snapshots: position of `instance` in instances
    volumes_for_instance, \* make_snapshots local, <<>> when unbound
    vidx,            \* make_snapshots: position of `volume`
    snapshot,        \* make_snapshots local, <<>> when unbound
    snapshots,       \* delete_old_snapshots: the listing
    groups,          \* delete_old_snapshots: volume ids still to visit
    snapshots_for_volume, \* delete_old_snapshots local
    calls,           \* history: the API calls issued, in order
    failures,        \* history: number of calls that raised
    exit             \* "running", "exit0", "exit1", "exception", "returned"

vars == <<ec2_tagged, ec2_attached, ec2_snapshots, num_backups, pc, instances,
          idx, volumes_for_instance, vidx, snapshot, snapshots, groups,
          snapshots_for_volume, calls, failures, exit>>

\* ------------------------------------------------------------ EC2 model
\* instance['Tags']: i-1 has a Name tag, the others have none.
InstanceName(i) == IF i = "i-1" THEN <<"web1">> ELSE <<>>

\* The device a volume is attached as.
DeviceOf(v) == IF v = "vol-1" THEN "/dev/sda1" ELSE "/dev/sdf"

\* Ascending enumeration of a finite set of integers.
RECURSIVE SetToSeq(_)
SetToSeq(S) ==
    IF S = {} THEN <<>>
    ELSE LET m == CHOOSE x \in S : \A y \in S : x <= y
         IN <<m>> \o SetToSeq(S \ {m})

\* volume['Attachments']: one record per attachment.
Attachments(v) ==
    LET Att(i) == i \in ec2_attached[v]
        who == SelectSeq(AllInstances, Att)
    IN [k \in 1..Len(who) |-> [Device |-> DeviceOf(v), InstanceId |-> who[k]]]

\* A volume is 'in-use' exactly when it has an attachment.
VolumeStatus(v) == IF ec2_attached[v] = {} THEN "available" ELSE "in-use"

\* describe_instances(Filters=[tag:key = value])['Reservations']: one
\* reservation per matching instance.
DescribeInstancesResult ==
    LET Tagged(i) == ec2_tagged[i]
        match == SelectSeq(AllInstances, Tagged)
    IN [k \in 1..Len(match) |-> [Instances |-> <<match[k]>>]]

\* describe_volumes(attachment.instance-id = i, status = in-use)['Volumes']
DescribeVolumesResult(i) ==
    LET Listed(v) == i \in ec2_attached[v] /\ VolumeStatus(v) = "in-use"
    IN SelectSeq(AllVolumes, Listed)

\* The snapshot filter of delete_old_snapshots applied to one tag set.
MatchesSnapshotFilter(tags, key, value) ==
    /\ tags["Creator"] = <<CreatorLiteral>>
    /\ tags[OriginKey(key)] = <<value>>

\* describe_snapshots(Filters=...)['Snapshots'], in SnapshotId order.
DescribeSnapshotsResult ==
    LET ids == SetToSeq({s \in 1..Len(ec2_snapshots) :
                    /\ ec2_snapshots[s].exists
                    /\ MatchesSnapshotFilter(ec2_snapshots[s].Tags, tag_key, tag_value)})
    IN [k \in 1..Len(ids) |-> [SnapshotId |-> ids[k],
                               VolumeId |-> ec2_snapshots[ids[k]].VolumeId,
                               StartTime |-> ec2_snapshots[ids[k]].StartTime]]

\* ------------------------------------------------------- pure functions
\* list(chain.from_iterable([x['Instances'] for x in reservations]))
RECURSIVE Flatten(_)
Flatten(reservations) ==
    IF reservations = <<>> THEN <<>>
    ELSE Head(reservations).Instances \o Flatten(Tail(reservations))

\* ', '.join([att[field] for att in attachments]), kept as the list joined.
JoinDevices(attachments) == [k \in 1..Len(attachments) |-> attachments[k].Device]
JoinInstances(attachments) == [k \in 1..Len(attachments) |-> attachments[k].InstanceId]

\* Insert x into the sorted list s after every element whose key is <= its own.
RECURSIVE InsertByStartTime(_, _)
InsertByStartTime(x, s) ==
    IF s = <<>> THEN <<x>>
    ELSE IF Head(s).StartTime <= x.StartTime
         THEN <<Head(s)>> \o InsertByStartTime(x, Tail(s))
         ELSE <<x>> \o s

\* Line 139 forgotten: the list stays in the order of the listing.
Unsorted(l) == l

\* sorted(l, key=lambda x: x['StartTime']): ascending and stable.
RECURSIVE SortedByStartTime(_)
SortedByStartTime(l) ==
    IF l = <<>> THEN <<>>
    ELSE InsertByStartTime(l[Len(l)], SortedByStartTime(SubSeq(l, 1, Len(l) - 1)))

\* [s for s in snapshots['Snapshots'] if s['VolumeId'] == volume_id]
RECURSIVE SnapshotsOfVolume(_, _)
SnapshotsOfVolume(l, volume_id) ==
    IF l = <<>> THEN <<>>
    ELSE (IF Head(l).VolumeId = volume_id THEN <<Head(l)>> ELSE <<>>)
         \o SnapshotsOfVolume(Tail(l), volume_id)

\* set([snapshot['VolumeId'] for snapshot in snapshots['Snapshots']])
VolumeIdsOf(l) == {l[k].VolumeId : k \in 1..Len(l)}

\* ------------------------------------------------------------- history
Call(op, inst, vol, snap, ok) ==
    [op |-> op, inst |-> inst, vol |-> vol, snap |-> snap, ok |-> ok]

\* Every API call takes one tick of the clock.
Clock == Len(calls)

MayFail == failures < MaxFailures

\* ----------------------------------------------------------------- Init
OldStartTimes == 1..MaxStartTime

\* The tags an earlier run wrote on a snapshot, for selector value `value`.
OldTags(value) ==
    [k \in TagKeys |->
        IF k = "Name" THEN <<[label |-> <<"old">>, devices |-> <<>>, date |-> 0] >>
        ELSE IF k = "Creator" THEN <<CreatorLiteral>>
        ELSE IF k = "Origin-Instance" THEN <<"i-1">>
        ELSE <<value>>]

OldSnapshot(v, t, value) ==
    [VolumeId |-> v, StartTime |-> t, Tags |-> OldTags(value), exists |-> TRUE,
     Description |-> <<>>]

\* The state of main() before its first API call.
Start(at) ==
    /\ pc = at
    /\ instances = <<>>
    /\ idx = 0
    /\ volumes_for_instance = <<>>
    /\ vidx = 0
    /\ snapshot = <<>>
    /\ snapshots = <<>>
    /\ groups = {}
    /\ snapshots_for_volume = <<>>
    /\ calls = <<>>
    /\ failures = 0
    /\ exit = "running"

\* main(): any tagging of the instances, any attachment of the volumes, and
\* earlier snapshots of this selector, oldest first.
Init ==
    /\ ec2_tagged \in [InstanceIds -> BOOLEAN]
    /\ ec2_attached \in [VolumeIds -> SUBSET InstanceIds]
    /\ \E vol \in [OldSnapshotIds -> VolumeIds] :
           ec2_snapshots = [s \in OldSnapshotIds |-> OldSnapshot(vol[s], s, tag_value)]
    /\ num_backups \in 0..MaxNumBackups
    /\ Start("describe_instances")

\* delete_old_snapshots() called on its own: any earlier snapshots, of this
\* selector or of another, with any creation times (ties included).
InitPrune ==
    /\ ec2_tagged = [i \in InstanceIds |-> FALSE]
    /\ ec2_attached = [v \in VolumeIds |-> {}]
    /\ ec2_snapshots \in [OldSnapshotIds ->
            {OldSnapshot(v, t, val) : v \in VolumeIds, t \in OldStartTimes,
                                      val \in {tag_value, other_value}}]
    /\ num_backups \in 0..MaxNumBackups
    /\ Start("describe_snapshots")

\* ------------------------------------------------------- make_snapshots
makeLocals == <<instances, idx, volumes_for_instance, vidx, snapshot>>
pruneLocals == <<snapshots, groups, snapshots_for_volume>>
ec2Fixed == <<ec2_tagged, ec2_attached, num_backups>>

\* sys.exit(code), or an exception nobody catches: the process ends.
Terminate(how) ==
    /\ exit' = how
    /\ pc' = "terminated"

\* Lines 38-40 without the sys.exit(0): an empty list skips the loop.
InstancesListedNoExit(reservations) ==
    /\ instances' = Flatten(reservations)
    /\ idx' = IF Flatten(reservations) = <<>> THEN idx ELSE 1
    /\ pc' = IF Flatten(reservations) = <<>> THEN "describe_snapshots"
             ELSE "describe_volumes"
    /\ exit' = exit

\* Lines 37-40, after describe_instances returned `reservations`.
InstancesListed(reservations) ==
    /\ instances' = Flatten(reservations)
    /\ IF Flatten(reservations) = <<>>
       THEN Terminate("exit0") /\ idx' = idx
       ELSE /\ idx' = 1
            /\ pc' = "describe_volumes"
            /\ exit' = exit

\* Lines 33-34 without an exception, then lines 37-40.
DescribeInstancesOk ==
    /\ pc = "describe_instances"
    /\ calls' = Append(calls, Call("describe_instances", "-", "-", 0, TRUE))
    /\ InstancesListed(DescribeInstancesResult)
    /\ UNCHANGED <<ec2Fixed, ec2_snapshots, volumes_for_instance, vidx, snapshot,
                   pruneLocals, failures>>

\* Lines 35-37: the error is logged, `reservations` is unbound and line 37
\* raises UnboundLocalError, which main() does not catch.
DescribeInstancesFail ==
    /\ pc = "describe_instances"
    /\ MayFail
    /\ failures' = failures + 1
    /\ calls' = Append(calls, Call("describe_instances", "-", "-", 0, FALSE))
    /\ Terminate("exception")
    /\ UNCHANGED <<ec2Fixed, ec2_snapshots, makeLocals, pruneLocals>>

\* Lines 54-58 with `break` in place of sys.exit(1).
VolumesListedBreak(vols) ==
    IF vols = <<>>
    THEN Terminate("exception") /\ vidx' = vidx
    ELSE /\ vidx' = 1
         /\ pc' = IF vols[1] # <<>> THEN "create_snapshot"
                  ELSE "describe_snapshots"
         /\ exit' = exit

\* Lines 54-58 and the start of the volume loop, with volumes_for_instance
\* as line 46 left it: `vols` is <<>> (unbound) or <<list>>.
VolumesListed(vols) ==
    IF vols = <<>>
    THEN Terminate("exception") /\ vidx' = vidx
    ELSE IF vols[1] = <<>>
         THEN Terminate("exit1") /\ vidx' = vidx
         ELSE /\ vidx' = 1
              /\ pc' = "create_snapshot"
              /\ exit' = exit

\* Lines 45-50 without an exception, then lines 54-58.
DescribeVolumesOk ==
    /\ pc = "describe_volumes"
    /\ calls' = Append(calls, Call("describe_volumes", instances[idx], "-", 0, TRUE))
    /\ volumes_for_instance' = <<DescribeVolumesResult(instances[idx])>>
    /\ VolumesListed(volumes_for_instance')
    /\ UNCHANGED <<ec2Fixed, ec2_snapshots, instances, idx, snapshot, pruneLocals,
                   failures>>

\* Lines 51-58: the error is logged and volumes_for_instance keeps what the
\* previous instance left in it, or is unbound for the first instance.
DescribeVolumesFail ==
    /\ pc = "describe_volumes"
    /\ MayFail
    /\ failures' = failures + 1
    /\ calls' = Append(calls, Call("describe_volumes", instances[idx], "-", 0, FALSE))
    /\ volumes_for_instance' = volumes_for_instance
    /\ VolumesListed(volumes_for_instance)
    /\ UNCHANGED <<ec2Fixed, ec2_snapshots, instances, idx, snapshot, pruneLocals>>

\* `instance` and `volume` of the current loop iteration.
instance == instances[idx]
volume == volumes_for_instance[1][vidx]

\* Lines 61-65.
instance_name == InstanceName(instance)

\* Lines 72-84: the description, as its parts.
Description(v) ==
    <<v, JoinDevices(Attachments(v)), instance_name, JoinInstances(Attachments(v))>>

\* Lines 96-104.
NameTagValue(v) ==
    [label |-> IF instance_name # <<>> THEN instance_name
               ELSE JoinInstances(Attachments(v)),
     devices |-> JoinDevices(Attachments(v)),
     date |-> Clock]

\* Lines 113-114 with the selector's key and value swapped.
NewTagsSwapped(v) ==
    [k \in TagKeys |->
        IF k = "Name" THEN <<NameTagValue(v)>>
        ELSE IF k = "Creator" THEN <<CreatorLiteral>>
        ELSE IF k = "Origin-Instance" THEN <<instance>>
        ELSE <<tag_key>>]

\* Lines 107-114: the Tags argument of create_tags.
NewTags(v) ==
    [k \in TagKeys |->
        IF k = "Name" THEN <<NameTagValue(v)>>
        ELSE IF k = "Creator" THEN <<CreatorLiteral>>
        ELSE IF k = "Origin-Instance" THEN <<instance>>
        ELSE <<tag_value>>]

\* Lines 85-87 and 92-95: the snapshot is created and bound to `snapshot`.
CreateSnapshotOk ==
    /\ pc = "create_snapshot"
    /\ LET id == Len(ec2_snapshots) + 1
       IN /\ ec2_snapshots' = Append(ec2_snapshots,
                [VolumeId |-> volume, StartTime |-> MaxOldSnapshots + MaxStartTime + Clock,
                 Tags |-> NoTags, exists |-> TRUE, Description |-> Description(volume)])
          /\ snapshot' = <<id>>
          /\ calls' = Append(calls, Call("create_snapshot", instance, volume, id, TRUE))
    /\ pc' = "create_tags"
    /\ UNCHANGED <<ec2Fixed, instances, idx, volumes_for_instance, vidx, pruneLocals,
                   failures, exit>>

\* Lines 88-91: the error is logged; `snapshot` keeps its previous binding.
CreateSnapshotFail ==
    /\ pc = "create_snapshot"
    /\ MayFail
    /\ failures' = failures + 1
    /\ calls' = Append(calls, Call("create_snapshot", instance, volume, 0, FALSE))
    /\ pc' = "create_tags"
    /\ UNCHANGED <<ec2Fixed, ec2_snapshots, makeLocals, pruneLocals, exit>>

\* The volume loop left after its first iteration.
AdvanceAfterFirst ==
    IF idx < Len(instances)
    THEN /\ idx' = idx + 1
         /\ vidx' = vidx
         /\ pc' = "describe_volumes"
    ELSE /\ pc' = "describe_snapshots"
         /\ UNCHANGED <<idx, vidx>>

\* The end of one iteration of the volume loop (line 67), of the instance
\* loop (line 43) and of make_snapshots (line 216 to 217).
Advance ==
    IF vidx < Len(volumes_for_instance[1])
    THEN /\ vidx' = vidx + 1
         /\ idx' = idx
         /\ pc' = "create_snapshot"
    ELSE IF idx < Len(instances)
         THEN /\ idx' = idx + 1
              /\ vidx' = vidx
              /\ pc' = "describe_volumes"
         ELSE /\ pc' = "describe_snapshots"
              /\ UNCHANGED <<idx, vidx>>

\* Line 106 with `snapshot` unbound: evaluating snapshot['SnapshotId'] raises
\* UnboundLocalError, which the except clause of line 115 does not catch.
CreateTagsUnbound ==
    /\ pc = "create_tags"
    /\ snapshot = <<>>
    /\ Terminate("exception")
    /\ UNCHANGED <<ec2Fixed, ec2_snapshots, makeLocals, pruneLocals, calls, failures>>

\* Lines 105-114: the tags are written on the snapshot `snapshot` names.
CreateTagsOk ==
    /\ pc = "create_tags"
    /\ snapshot # <<>>
    /\ ec2_snapshots' = [ec2_snapshots EXCEPT ![snapshot[1]].Tags = NewTags(volume)]
    /\ calls' = Append(calls, Call("create_tags", instance, volume, snapshot[1], TRUE))
    /\ Advance
    /\ UNCHANGED <<ec2Fixed, instances, volumes_for_instance, snapshot, pruneLocals,
                   failures, exit>>

\* Lines 115-119: the error is logged.
CreateTagsFail ==
    /\ pc = "create_tags"
    /\ snapshot # <<>>
    /\ MayFail
    /\ failures' = failures + 1
    /\ calls' = Append(calls, Call("create_tags", instance, volume, snapshot[1], FALSE))
    /\ Advance
    /\ UNCHANGED <<ec2Fixed, ec2_snapshots, instances, volumes_for_instance, snapshot,
                   pruneLocals, exit>>

\* ------------------------------------------------- delete_old_snapshots
\* Lines 128-132 without an exception.
DescribeSnapshotsOk ==
    /\ pc = "describe_snapshots"
    /\ calls' = Append(calls, Call("describe_snapshots", "-", "-", 0, TRUE))
    /\ snapshots' = DescribeSnapshotsResult
    /\ groups' = VolumeIdsOf(DescribeSnapshotsResult)
    /\ pc' = "next_group"
    /\ UNCHANGED <<ec2Fixed, ec2_snapshots, makeLocals, snapshots_for_volume,
                   failures, exit>>

\* Lines 133-135.
DescribeSnapshotsFail ==
    /\ pc = "describe_snapshots"
    /\ MayFail
    /\ failures' = failures + 1
    /\ calls' = Append(calls, Call("describe_snapshots", "-", "-", 0, FALSE))
    /\ Terminate("exit1")
    /\ UNCHANGED <<ec2Fixed, ec2_snapshots, makeLocals, pruneLocals>>

\* Lines 137-139: the next volume_id of the set, in the set's own order.
NextGroup ==
    /\ pc = "next_group"
    /\ \E volume_id \in groups :
        /\ groups' = groups \ {volume_id}
        /\ snapshots_for_volume' =
               SortedByStartTime(SnapshotsOfVolume(snapshots, volume_id))
    /\ pc' = "while"
    /\ UNCHANGED <<ec2Fixed, ec2_snapshots, makeLocals, snapshots, calls, failures, exit>>

\* Line 137 with every volume_id visited: delete_old_snapshots and main return.
Return ==
    /\ pc = "next_group"
    /\ groups = {}
    /\ Terminate("returned")
    /\ UNCHANGED <<ec2Fixed, ec2_snapshots, makeLocals, pruneLocals, calls, failures>>

\* Line 141: the loop condition.
TooMany(l, n) == Len(l) > n

\* Line 143: pop(0) leaves the list without its first element.
Popped(l) == Tail(l)

\* Lines 141-144 and 151-155: the oldest snapshot is popped and deleted.
DeleteSnapshotOk ==
    /\ pc = "while"
    /\ TooMany(snapshots_for_volume, num_backups)
    /\ LET s == Head(snapshots_for_volume)
       IN /\ ec2_snapshots' = [ec2_snapshots EXCEPT ![s.SnapshotId].exists = FALSE]
          /\ calls' = Append(calls,
                 Call("delete_snapshot", "-", s.VolumeId, s.SnapshotId, TRUE))
    /\ snapshots_for_volume' = Popped(snapshots_for_volume)
    /\ UNCHANGED <<ec2Fixed, makeLocals, snapshots, groups, failures, exit, pc>>

\* Lines 141-150 with the pop after the call: a failed deletion is retried.
DeleteSnapshotFailRetry ==
    /\ pc = "while"
    /\ Len(snapshots_for_volume) > num_backups
    /\ MayFail
    /\ failures' = failures + 1
    /\ LET s == Head(snapshots_for_volume)
       IN calls' = Append(calls,
              Call("delete_snapshot", "-", s.VolumeId, s.SnapshotId, FALSE))
    /\ UNCHANGED <<ec2_tagged, ec2_attached, num_backups, ec2_snapshots, instances,
                   idx, volumes_for_instance, vidx, snapshot, snapshots, groups,
                   snapshots_for_volume, exit, pc>>

\* Lines 141-150: the snapshot is popped, the call raises, the error is logged.
DeleteSnapshotFail ==
    /\ pc = "while"
    /\ TooMany(snapshots_for_volume, num_backups)
    /\ MayFail
    /\ failures' = failures + 1
    /\ LET s == Head(snapshots_for_volume)
       IN calls' = Append(calls,
              Call("delete_snapshot", "-", s.VolumeId, s.SnapshotId, FALSE))
    /\ snapshots_for_volume' = Popped(snapshots_for_volume)
    /\ UNCHANGED <<ec2Fixed, ec2_snapshots, makeLocals, snapshots, groups, exit, pc>>

\* Line 141 false: the while loop of this volume_id ends.
GroupDone ==
    /\ pc = "while"
    /\ ~TooMany(snapshots_for_volume, num_backups)
    /\ pc' = "next_group"
    /\ UNCHANGED <<ec2Fixed, ec2_snapshots, makeLocals, pruneLocals, calls, failures, exit>>

MakeNext ==
    \/ DescribeInstancesOk
    \/ DescribeInstancesFail
    \/ DescribeVolumesOk
    \/ DescribeVolumesFail
    \/ CreateSnapshotOk
    \/ CreateSnapshotFail
    \/ CreateTagsUnbound
    \/ CreateTagsOk
    \/ CreateTagsFail

PruneNext ==
    \/ DescribeSnapshotsOk
    \/ DescribeSnapshotsFail
    \/ NextGroup
    \/ Return
    \/ DeleteSnapshotOk
    \/ DeleteSnapshotFail
    \/ GroupDone

Next == MakeNext \/ PruneNext

\* main()
Spec == Init /\ [][Next]_vars

\* delete_old_snapshots() alone
SpecPrune == InitPrune /\ [][PruneNext]_vars

\* =============================================================== claims
CreatorOps == {"describe_instances", "describe_volumes", "create_snapshot", "create_tags"}
PrunerOps == {"describe_snapshots", "delete_snapshot"}

CallIds == 1..Len(calls)
CallsOf(op) == {k \in CallIds : calls[k].op = op}
FailedCalls == {k \in CallIds : ~calls[k].ok}

\* The snapshots created in this run.
CreatedIds == {calls[k].snap : k \in {j \in CallsOf("create_snapshot") : calls[j].ok}}

Max(a, b) == IF a >= b THEN a ELSE b
Min(a, b) == IF a <= b THEN a ELSE b

\* ---- C1
\* The listing's entries of one volume, and the delete_snapshot calls for it.
ListedOf(v) == {k \in 1..Len(snapshots) : snapshots[k].VolumeId = v}
ListedIdsOf(v) == {snapshots[k].SnapshotId : k \in ListedOf(v)}
DeleteCallsOf(v) == {k \in CallsOf("delete_snapshot") : calls[k].vol = v}
DeletedIdsOf(v) == {calls[k].snap : k \in DeleteCallsOf(v)}

\* C1: when delete_old_snapshots has returned and no call failed, then for
\* every volume with `count` snapshots in the listing, delete_snapshot was
\* called on exactly max(count - N, 0) different snapshots of that volume,
\* none of them younger than a snapshot that was kept, and exactly
\* min(count, N) snapshots of the volume are left.
C1_PrunerDeletesOldestBeyondN ==
    (exit = "returned" /\ failures = 0) =>
        \A v \in VolumeIds :
            LET count == Cardinality(ListedOf(v))
                kept == ListedIdsOf(v) \ DeletedIdsOf(v)
            IN /\ Cardinality(DeleteCallsOf(v)) = Max(count - num_backups, 0)
               /\ Cardinality(DeletedIdsOf(v)) = Max(count - num_backups, 0)
               /\ DeletedIdsOf(v) \subseteq ListedIdsOf(v)
               /\ \A d \in DeletedIdsOf(v) : \A r \in kept :
                      ec2_snapshots[d].StartTime <= ec2_snapshots[r].StartTime
               /\ Cardinality(kept) = Min(count, num_backups)
               /\ \A s \in ListedIdsOf(v) : ec2_snapshots[s].exists <=> s \in kept

\* C1 witness: a run without failures that deleted snapshot 3 and kept the
\* younger snapshot 1 of the same volume.
C1_Witness ==
    /\ exit = "returned"
    /\ failures = 0
    /\ \E k \in CallsOf("delete_snapshot") : calls[k].snap = 3
    /\ ec2_snapshots[1].exists
    /\ 1 \in ListedIdsOf(ec2_snapshots[3].VolumeId)
    /\ ec2_snapshots[3].StartTime < ec2_snapshots[1].StartTime

\* ---- C8
\* The snapshots the run without failing deletions deletes for volume v:
\* the first max(count - N, 0) of the volume's snapshots, oldest first.
ExpectedDeleted(v) ==
    LET l == SortedByStartTime(SnapshotsOfVolume(snapshots, v))
    IN {l[k].SnapshotId : k \in 1..Max(Len(l) - num_backups, 0)}

\* C8: when delete_old_snapshots has returned, whatever deletions failed, the
\* snapshots passed to delete_snapshot are those of the run without failures
\* and each was passed exactly once.
C8_DeletesIndependentNoRetry ==
    exit = "returned" =>
        \A v \in VolumeIds :
            /\ DeletedIdsOf(v) = ExpectedDeleted(v)
            /\ \A s \in DeletedIdsOf(v) :
                   Cardinality({k \in DeleteCallsOf(v) : calls[k].snap = s}) = 1

\* C8 witness: a deletion failed in one volume's group and a later call
\* deleted a snapshot of another volume.
C8_Witness ==
    /\ exit = "returned"
    /\ \E j, k \in CallsOf("delete_snapshot") :
          /\ j < k
          /\ ~calls[j].ok
          /\ calls[k].ok
          /\ calls[j].vol # calls[k].vol

\* ---- make_snapshots: what the claims speak about
\* make_snapshots has returned to main, which goes on to line 217.
MakeReturned == pc \in {"describe_snapshots", "next_group", "while"} \/ exit = "returned"

\* An in-use volume attached to at least one instance matching the selector.
Eligible(v) ==
    /\ VolumeStatus(v) = "in-use"
    /\ \E i \in ec2_attached[v] : ec2_tagged[i]

CreateCallsOfVolume(v) == {k \in CallsOf("create_snapshot") : calls[k].vol = v}
CreateCallsOfInstance(i) == {k \in CallsOf("create_snapshot") : calls[k].inst = i}
TagCallsOfInstance(i) == {k \in CallsOf("create_tags") : calls[k].inst = i}

\* C2: when make_snapshots has returned and no API call failed, every
\* eligible volume has exactly one create_snapshot call.
C2_OneSnapshotPerEligibleVolume ==
    (MakeReturned /\ failures = 0) =>
        \A v \in VolumeIds :
            Eligible(v) => Cardinality(CreateCallsOfVolume(v)) = 1

\* C3: when the only calls that failed are create_snapshot and create_tags
\* calls, no exception reaches the caller of make_snapshots.
C3_CreateFailureNeverAborts ==
    (\A k \in FailedCalls : calls[k].op \in {"create_snapshot", "create_tags"})
        => exit # "exception"

\* ---- C4
\* C4 as stated: a run of main in which no API call failed does not end
\* before the Pruner has requested its snapshot listing.
C4_BothOperationsAlwaysRun ==
    (pc = "terminated" /\ failures = 0) => CallsOf("describe_snapshots") # {}

\* C4 amended: the Pruner's calls come only after make_snapshots has returned
\* from a run over at least one instance, after every call of the Creator;
\* a run the Creator ends (sys.exit(0) on zero matching instances, an
\* uncaught exception, sys.exit(1) on an instance without volumes) has no
\* Pruner call at all.
C4_PrunerOnlyAfterCreatorReturned ==
    /\ \A k \in CallIds : calls[k].op \in PrunerOps =>
          /\ MakeReturned \/ calls[Len(calls)].op = "describe_snapshots"
          /\ instances # <<>>
          /\ idx = Len(instances)
          /\ calls[1] = Call("describe_instances", "-", "-", 0, TRUE)
          /\ \A j \in CallIds : calls[j].op \in CreatorOps => j < k
    /\ (exit \in {"exit0", "exception"} \/ instances = <<>>) =>
          \A k \in CallIds : calls[k].op \notin PrunerOps
    /\ (exit = "exit1" /\ calls[Len(calls)].op # "describe_snapshots") =>
          \A k \in CallIds : calls[k].op \notin PrunerOps

\* C4 witness: main returned after the Creator made a snapshot and the
\* Pruner deleted one.
C4_Witness ==
    /\ exit = "returned"
    /\ CallsOf("create_snapshot") # {}
    /\ CallsOf("delete_snapshot") # {}

EmptyListings ==
    {k \in CallsOf("describe_volumes") :
        calls[k].ok /\ DescribeVolumesResult(calls[k].inst) = <<>>}

C7_FailedListingNeverFallsThrough ==
    /\ (\E k \in CallsOf("describe_instances") : ~calls[k].ok) =>
           CallsOf("create_snapshot") \cup CallsOf("create_tags") = {}
    /\ \A k \in CallsOf("describe_volumes") : ~calls[k].ok =>
           CreateCallsOfInstance(calls[k].inst) \cup TagCallsOfInstance(calls[k].inst) = {}

\* ---- C9
\* The volume loop of instance i has ended.
InstanceDone(i) ==
    \E k \in 1..Len(instances) :
        /\ instances[k] = i
        /\ \/ k < idx
           \/ k = idx /\ pc \notin {"describe_volumes", "create_snapshot", "create_tags"}

\* C9: with no failing call, an instance whose listing returned N >= 1
\* volumes has, once its loop has ended, exactly N create_snapshot calls and
\* N create_tags calls, each create_snapshot directly followed by the
\* create_tags call on the snapshot it returned.
C9_NCreatesAndNTags ==
    failures = 0 =>
        \A i \in InstanceIds :
            (InstanceDone(i) /\ Len(DescribeVolumesResult(i)) >= 1) =>
                /\ Cardinality(CreateCallsOfInstance(i)) = Len(DescribeVolumesResult(i))
                /\ Cardinality(TagCallsOfInstance(i)) = Len(DescribeVolumesResult(i))
                /\ \A k \in CreateCallsOfInstance(i) :
                      /\ k < Len(calls)
                      /\ calls[k + 1] =
                            Call("create_tags", i, calls[k].vol, calls[k].snap, TRUE)

\* C9 witness: the loop of an instance with two volumes has ended.
C9_Witness ==
    /\ failures = 0
    /\ \E i \in InstanceIds : InstanceDone(i) /\ Len(DescribeVolumesResult(i)) = 2

\* ---- C10
\* C10: every create_tags call comes directly after the successful
\* create_snapshot call of the same instance and volume and targets the
\* snapshot that call returned.
C10_TagsTargetOwnSnapshot ==
    \A k \in CallsOf("create_tags") :
        /\ k > 1
        /\ calls[k - 1] =
              Call("create_snapshot", calls[k].inst, calls[k].vol, calls[k].snap, TRUE)

====
